---- MODULE Spec2Model ----
(***************************************************************************)
(* Model of the JPEG-LS marker reader of charls-rs:                        *)
(*   src/src/jpeg_stream_reader.rs  JpegStreamReader (reader, state,        *)
(*                                  frame_info), its operations             *)
(*                                  read_next_marker_code, read_header,     *)
(*                                  read_u8, and the stream writer of its   *)
(*                                  test module;                            *)
(*   src/src/decoding_error.rs      DecodingError.                          *)
(* The marker enumeration (crate::jpeg_marker_code) is not part of the      *)
(* sources at hand; its byte -> marker conversion is modelled from the      *)
(* specification (TryFrom, MarkerCodes).                                    *)
(*                                                                         *)
(* The byte source is an in-memory slice, as in the tests: read_exact of    *)
(* one byte fails exactly when the slice is exhausted.                      *)
(***************************************************************************)
EXTENDS Integers, Sequences, FiniteSets, TLC

VARIABLES
    stream,      \* the bytes the reader was constructed over (reader: R)
    catalog,     \* the code bytes JpegMarkerCode::try_from accepts
    pos,         \* number of bytes of the source consumed so far
    state,       \* JpegStreamReader.state
    frame_info,  \* JpegStreamReader.frame_info
    op,          \* the operation called last ("none" before any call)
    result,      \* what that operation returned
    calls,       \* number of calls made on this reader
    pc,          \* where a call of read_next_marker_code that runs step by
                 \* step stands ("idle" when no such call is running)
    local_value  \* the local variable value of read_next_marker_code

vars == <<stream, catalog, pos, state, frame_info, op, result, calls, pc,
         local_value>>

----------------------------------------------------------------------------
(* Bounds of the model *)

\* longest enumerated byte stream
MaxLen == 4
\* number of calls made on one reader
MaxCalls == 3
\* most extra fill bytes inserted before a code byte
MaxFill == 2

----------------------------------------------------------------------------
(* Bytes with a meaning to the reader *)

\* 0xFF, the marker prefix and fill byte
MarkerPrefix == 255
\* 0xD8
StartOfImage == 216
\* 0xD9
EndOfImage == 217
\* 0xDA
StartOfScan == 218
\* 0xF7
StartOfFrameJpegls == 247
\* 0xF9, SOF_57
StartOfFrameJpeglsExtended == 249
\* 0xE0, the first of the sixteen application data markers
ApplicationData0 == 224
\* 0xFE
Comment == 254
\* 0x0F, the byte the tests put before the first marker
NotAMarkerByte == 15

\* The code bytes the marker enumeration certainly holds.
MarkerCodes ==
    {StartOfImage, EndOfImage, StartOfScan, StartOfFrameJpegls, Comment}
        \cup {ApplicationData0 + i : i \in 0..15}

\* Whether the enumeration also holds SOF_57 is not decided by the sources.
Catalogs == {MarkerCodes, MarkerCodes \cup {StartOfFrameJpeglsExtended}}

----------------------------------------------------------------------------
(* DecodingError and results *)

DecodingError ==
    {"IoError", "JpegMarkerStartByteNotFound", "StartOfImageMarkerNotFound",
     "UnknownError"}

Ok(v) == [ok |-> TRUE, value |-> v, error |-> "None"]
Err(e) == [ok |-> FALSE, value |-> 0, error |-> e]
NoResult == [ok |-> FALSE, value |-> 0, error |-> "None"]

----------------------------------------------------------------------------
(* ReaderState *)

ReaderStates ==
    <<"BeforeStartOfImage", "HeaderSection", "SpiffHeaderSection",
      "ImageSection", "FrameSection", "ScanSection", "BitStreamSection",
      "AfterEndOfImage">>

\* position of a state in the declaration order of the enum
Rank(st) == CHOOSE i \in 1..Len(ReaderStates) : ReaderStates[i] = st

ZeroFrameInfo_StaleWidth ==
    [width |-> 1, height |-> 0, bits_per_sample |-> 0, component_count |-> 0]

ZeroFrameInfo ==
    [width |-> 0, height |-> 0, bits_per_sample |-> 0, component_count |-> 0]

----------------------------------------------------------------------------
(* The operations of JpegStreamReader, as functions of the source and the   *)
(* read position.                                                          *)

ReadU8_NoAdvance(s, p) ==
    IF p < Len(s)
    THEN [res |-> Ok(s[p + 1]), pos |-> p]
    ELSE [res |-> Err("UnknownError"), pos |-> p]

\* read_u8: one byte, or UnknownError when read_exact fails
ReadU8(s, p) ==
    IF p < Len(s)
    THEN [res |-> Ok(s[p + 1]), pos |-> p + 1]
    ELSE [res |-> Err("UnknownError"), pos |-> p]

\* JpegMarkerCode::try_from(value)
TryFrom(value) ==
    IF value \in catalog THEN Ok(value) ELSE Err("TryFromPrimitiveError")

ReadFillBytes_Once(s, p, value) ==
    IF value = MarkerPrefix
    THEN ReadU8(s, p)
    ELSE [res |-> Ok(value), pos |-> p]

\* while value == 255 { value = self.read_u8()?; }
RECURSIVE ReadFillBytes(_, _, _)
ReadFillBytes(s, p, value) ==
    IF value = MarkerPrefix
    THEN LET r == ReadU8(s, p)
         IN  IF ~r.res.ok THEN r ELSE ReadFillBytes(s, r.pos, r.res.value)
    ELSE [res |-> Ok(value), pos |-> p]

ResolveMarker_Pushback(f) ==
    IF ~f.res.ok
    THEN f
    ELSE IF ~TryFrom(f.res.value).ok
         THEN [res |-> Err("StartOfImageMarkerNotFound"), pos |-> f.pos - 1]
         ELSE [res |-> Ok(TryFrom(f.res.value).value), pos |-> f.pos]

\* what read_next_marker_code does once the byte after the fill bytes is known
ResolveMarker(f) ==
    IF ~f.res.ok
    THEN f
    ELSE IF ~TryFrom(f.res.value).ok
         THEN [res |-> Err("StartOfImageMarkerNotFound"), pos |-> f.pos]
         ELSE [res |-> Ok(TryFrom(f.res.value).value), pos |-> f.pos]

ReadNextMarkerCode_NoPrefixCheck(s, p) ==
    LET first == ReadU8(s, p)
    IN  IF ~first.res.ok
        THEN first
        ELSE ResolveMarker(ReadFillBytes(s, first.pos, first.res.value))

\* read_next_marker_code
ReadNextMarkerCode(s, p) ==
    LET first == ReadU8(s, p)
    IN  IF ~first.res.ok
        THEN first
        ELSE IF first.res.value # MarkerPrefix
             THEN [res |-> Err("JpegMarkerStartByteNotFound"), pos |-> first.pos]
             ELSE ResolveMarker(ReadFillBytes(s, first.pos, first.res.value))

ReadHeader_NoTransition(st, s, p) ==
    IF st = "BeforeStartOfImage"
    THEN LET m == ReadNextMarkerCode(s, p)
         IN  IF ~m.res.ok
             THEN [res |-> m.res, state |-> st, pos |-> m.pos]
             ELSE IF m.res.value # StartOfImage
                  THEN [res |-> Err("StartOfImageMarkerNotFound"),
                        state |-> st, pos |-> m.pos]
                  ELSE [res |-> Ok(0), state |-> st, pos |-> m.pos]
    ELSE [res |-> Ok(0), state |-> st, pos |-> p]

ReadHeader_EagerState(st, s, p) ==
    IF st = "BeforeStartOfImage"
    THEN LET m == ReadNextMarkerCode(s, p)
         IN  IF ~m.res.ok
             THEN [res |-> m.res, state |-> "HeaderSection", pos |-> m.pos]
             ELSE IF m.res.value # StartOfImage
                  THEN [res |-> Err("StartOfImageMarkerNotFound"),
                        state |-> "HeaderSection", pos |-> m.pos]
                  ELSE [res |-> Ok(0), state |-> "HeaderSection", pos |-> m.pos]
    ELSE [res |-> Ok(0), state |-> st, pos |-> p]

ReadHeader_AlwaysCheck(st, s, p) ==
    LET m == ReadNextMarkerCode(s, p)
    IN  IF ~m.res.ok
        THEN [res |-> m.res, state |-> st, pos |-> m.pos]
        ELSE IF m.res.value # StartOfImage
             THEN [res |-> Err("StartOfImageMarkerNotFound"),
                   state |-> st, pos |-> m.pos]
             ELSE [res |-> Ok(0), state |-> "HeaderSection", pos |-> m.pos]

ReadHeader_ResetOnError(st, s, p) ==
    LET m == ReadNextMarkerCode(s, p)
    IN  IF ~m.res.ok
        THEN [res |-> m.res, state |-> "BeforeStartOfImage", pos |-> m.pos]
        ELSE IF m.res.value # StartOfImage
             THEN [res |-> Err("StartOfImageMarkerNotFound"),
                   state |-> "BeforeStartOfImage", pos |-> m.pos]
             ELSE [res |-> Ok(0), state |-> "HeaderSection", pos |-> m.pos]

ReadHeader_RewindOnError(st, s, p) ==
    IF st = "BeforeStartOfImage"
    THEN LET m == ReadNextMarkerCode(s, p)
         IN  IF ~m.res.ok
             THEN [res |-> m.res, state |-> st, pos |-> p]
             ELSE IF m.res.value # StartOfImage
                  THEN [res |-> Err("StartOfImageMarkerNotFound"),
                        state |-> st, pos |-> p]
                  ELSE [res |-> Ok(0), state |-> "HeaderSection", pos |-> m.pos]
    ELSE [res |-> Ok(0), state |-> st, pos |-> p]

ReadHeader_InvertedCheck(st, s, p) ==
    IF st = "BeforeStartOfImage"
    THEN LET m == ReadNextMarkerCode(s, p)
         IN  IF ~m.res.ok
             THEN [res |-> m.res, state |-> st, pos |-> m.pos]
             ELSE IF m.res.value = StartOfImage
                  THEN [res |-> Err("StartOfImageMarkerNotFound"),
                        state |-> st, pos |-> m.pos]
                  ELSE [res |-> Ok(0), state |-> "HeaderSection", pos |-> m.pos]
    ELSE [res |-> Ok(0), state |-> st, pos |-> p]

\* read_header
ReadHeader(st, s, p) ==
    IF st = "BeforeStartOfImage"
    THEN LET m == ReadNextMarkerCode(s, p)
         IN  IF ~m.res.ok
             THEN [res |-> m.res, state |-> st, pos |-> m.pos]
             ELSE IF m.res.value # StartOfImage
                  THEN [res |-> Err("StartOfImageMarkerNotFound"),
                        state |-> st, pos |-> m.pos]
                  ELSE [res |-> Ok(0), state |-> "HeaderSection", pos |-> m.pos]
    ELSE [res |-> Ok(0), state |-> st, pos |-> p]

----------------------------------------------------------------------------
(* The stream writer of the reader's tests (JpegTestStreamWriter): the      *)
(* buffer is a sequence of bytes, each operation returns the buffer it      *)
(* leaves.                                                                  *)

\* write_byte
WriteByte(buffer, value) == Append(buffer, value)

\* write_u16: value.to_be_bytes()
WriteU16(buffer, value) == buffer \o <<value \div 256, value % 256>>

\* write_marker
WriteMarker(buffer, marker_code) ==
    WriteByte(WriteByte(buffer, MarkerPrefix), marker_code)

\* write_start_of_image
WriteStartOfImage(buffer) == buffer \o <<MarkerPrefix, StartOfImage>>

\* write_segment: the buffer gets 0xFF 0xD8 before the segment's marker
WriteSegment(buffer, marker_code, segment_data) ==
    WriteU16(WriteMarker(buffer \o <<MarkerPrefix, StartOfImage>>, marker_code),
             (Len(segment_data) + 2) % 65536)
        \o segment_data

\* the three bytes per component of a frame header: Ci, Hi + Vi, Tqi
RECURSIVE FrameComponents(_, _)
FrameComponents(component_id, component_count) ==
    IF component_id >= component_count
    THEN <<>>
    ELSE <<component_id, 17, 0>>
             \o FrameComponents(component_id + 1, component_count)

\* write_start_of_frame_segment
WriteStartOfFrameSegment(buffer, width, height, bits_per_sample, component_count) ==
    WriteSegment(buffer, StartOfFrameJpegls,
        WriteByte(WriteU16(WriteU16(<<bits_per_sample>>, height), width),
                  component_count % 256)
            \o FrameComponents(0, component_count % 256))

\* the two bytes per component of a scan header: id, mapping table selector
RECURSIVE ScanComponents(_, _, _)
ScanComponents(component_id, i, component_count) ==
    IF i >= component_count
    THEN <<>>
    ELSE <<component_id + i, 0>>
             \o ScanComponents(component_id, i + 1, component_count)

\* write_start_of_scan_segment
WriteStartOfScanSegment(buffer, component_id, component_count, near_lossless, interleave_mode) ==
    WriteSegment(buffer, StartOfScan,
        <<component_count>>
            \o ScanComponents(component_id, 0, component_count)
            \o <<near_lossless, interleave_mode, 0>>)

----------------------------------------------------------------------------
(* The byte streams readers are constructed over *)

\* tests::read_header_from_too_small_input_buffer_fails
TooSmallStream == <<1>>

\* tests::read_header_from_buffer_not_starting_with_ff_throws
NotStartingWithFFStream ==
    <<NotAMarkerByte, MarkerPrefix, StartOfImage, MarkerPrefix, MarkerPrefix,
      StartOfScan>>

\* tests::read_header_with_jpegls_extended_frame_throws
ExtendedFrameStream ==
    <<MarkerPrefix, StartOfImage, MarkerPrefix, StartOfFrameJpeglsExtended,
      StartOfScan>>

\* tests::read_header_from_buffer_preceded_with_fill_bytes
FillBytesStream ==
    WriteStartOfScanSegment(
        WriteByte(
            WriteStartOfFrameSegment(
                WriteByte(WriteStartOfImage(WriteByte(<<>>, MarkerPrefix)),
                          MarkerPrefix),
                1, 1, 2, 1),
            MarkerPrefix),
        0, 1, 1, 0)

\* start of image, frame segment, scan segment, as the test writer emits them
WriterHeaderStream ==
    WriteStartOfScanSegment(
        WriteStartOfFrameSegment(WriteStartOfImage(<<>>), 1, 1, 2, 1),
        0, 1, 1, 0)

\* The same stream in the segment layout: marker, two-byte big-endian length
\* that counts itself, payload (frame: precision 2, height 1, width 1, one
\* component 0 / 0x11 / 0; scan: one component 0, near-lossless 1, interleave 0).
ValidHeaderStream ==
    <<MarkerPrefix, StartOfImage,
      MarkerPrefix, StartOfFrameJpegls, 0, 11, 2, 0, 1, 0, 1, 1, 0, 17, 0,
      MarkerPrefix, StartOfScan, 0, 8, 1, 0, 0, 1, 0, 0>>

\* tests::read_header_with_application_data_for(data_number)
ApplicationDataStream(data_number) ==
    WriteStartOfScanSegment(
        WriteStartOfFrameSegment(
            WriteByte(WriteByte(
                WriteByte(WriteByte(WriteStartOfImage(<<>>), MarkerPrefix),
                          (ApplicationData0 + data_number) % 256),
                0), 2),
            1, 1, 2, 1),
        0, 1, 1, 0)

\* start of image and a frame segment, as the test writer emits them
FrameStream(width, height, bits_per_sample, component_count) ==
    WriteStartOfFrameSegment(WriteStartOfImage(<<>>), width, height,
                             bits_per_sample, component_count)

\* the frame parameters of the streams built with the test writer
FrameParameters ==
    [width : {1, 258}, height : {1, 513}, bits_per_sample : {2, 8, 16},
     component_count : {1, 3}]

Prefixes(s) == {SubSeq(s, 1, k) : k \in 0..Len(s)}

\* the bytes the enumerated streams are made of
Bytes ==
    {NotAMarkerByte, StartOfImage, StartOfScan, StartOfFrameJpeglsExtended,
     MarkerPrefix}

Streams ==
    UNION {[1..n -> Bytes] : n \in 0..MaxLen}
        \cup {TooSmallStream, NotStartingWithFFStream, ExtendedFrameStream,
              FillBytesStream, WriterHeaderStream}
        \cup Prefixes(ValidHeaderStream)
        \cup {ApplicationDataStream(n) : n \in 0..15}
        \cup {FrameStream(f.width, f.height, f.bits_per_sample,
                          f.component_count) : f \in FrameParameters}

----------------------------------------------------------------------------
(* The reader as a state machine: one action per call *)

\* JpegStreamReader::new
Init ==
    /\ stream \in Streams
    /\ catalog \in Catalogs
    /\ pos = 0
    /\ state = "BeforeStartOfImage"
    /\ frame_info = ZeroFrameInfo
    /\ op = "none"
    /\ result = NoResult
    /\ calls = 0
    /\ pc = "idle"
    /\ local_value = 0

ReadNextMarkerCodeCall_AdvancesState ==
    /\ pc = "idle"
    /\ calls < MaxCalls
    /\ LET r == ReadNextMarkerCode(stream, pos)
       IN  /\ result' = r.res
           /\ pos' = r.pos
           /\ state' = IF r.res = Ok(StartOfImage) /\ state = "BeforeStartOfImage"
                       THEN "HeaderSection"
                       ELSE state
    /\ op' = "read_next_marker_code"
    /\ calls' = calls + 1
    /\ UNCHANGED <<stream, catalog, frame_info, pc, local_value>>

\* a call of read_next_marker_code
ReadNextMarkerCodeCall ==
    /\ pc = "idle"
    /\ calls < MaxCalls
    /\ LET r == ReadNextMarkerCode(stream, pos)
       IN  /\ result' = r.res
           /\ pos' = r.pos
    /\ op' = "read_next_marker_code"
    /\ calls' = calls + 1
    /\ UNCHANGED <<stream, catalog, state, frame_info, pc, local_value>>

\* a call of read_header
ReadHeaderCall ==
    /\ pc = "idle"
    /\ calls < MaxCalls
    /\ LET r == ReadHeader(state, stream, pos)
       IN  /\ result' = r.res
           /\ pos' = r.pos
           /\ state' = r.state
    /\ op' = "read_header"
    /\ calls' = calls + 1
    /\ UNCHANGED <<stream, catalog, frame_info, pc, local_value>>

Next == ReadNextMarkerCodeCall \/ ReadHeaderCall

Spec == Init /\ [][Next]_vars

TypeOK ==
    /\ stream \in Streams
    /\ catalog \in Catalogs
    /\ pos \in 0..Len(stream)
    /\ \E i \in 1..Len(ReaderStates) : state = ReaderStates[i]
    /\ frame_info \in [width : Nat, height : Nat, bits_per_sample : Nat,
                       component_count : Nat]
    /\ op \in {"none", "read_next_marker_code", "read_header"}
    /\ result.ok \in BOOLEAN
    /\ result.error \in DecodingError \cup {"None"}
    /\ calls \in 0..MaxCalls
    /\ pc \in {"idle", "read_first", "fill_loop"}
    /\ local_value \in 0..255

----------------------------------------------------------------------------
(* read_next_marker_code step by step: one action per read of a byte, so    *)
(* that the fill byte loop is a loop of the model too.                      *)

\* read_next_marker_code is called
BeginReadNextMarkerCode ==
    /\ pc = "idle"
    /\ calls < MaxCalls
    /\ pc' = "read_first"
    /\ op' = "read_next_marker_code"
    /\ result' = NoResult
    /\ calls' = calls + 1
    /\ UNCHANGED <<stream, catalog, pos, state, frame_info, local_value>>

\* let mut value = self.read_u8()?; if value != 255 { return Err(..) }
ReadFirstByte ==
    /\ pc = "read_first"
    /\ LET r == ReadU8(stream, pos)
       IN  IF ~r.res.ok
           THEN /\ result' = r.res
                /\ pc' = "idle"
                /\ UNCHANGED <<pos, local_value>>
           ELSE /\ local_value' = r.res.value
                /\ pos' = r.pos
                /\ IF r.res.value # MarkerPrefix
                   THEN /\ result' = Err("JpegMarkerStartByteNotFound")
                        /\ pc' = "idle"
                   ELSE /\ pc' = "fill_loop"
                        /\ UNCHANGED result
    /\ UNCHANGED <<stream, catalog, state, frame_info, op, calls>>

\* one turn of: while value == 255 { value = self.read_u8()?; }
ReadFillByte ==
    /\ pc = "fill_loop"
    /\ local_value = MarkerPrefix
    /\ LET r == ReadU8(stream, pos)
       IN  IF ~r.res.ok
           THEN /\ result' = r.res
                /\ pc' = "idle"
                /\ UNCHANGED <<pos, local_value>>
           ELSE /\ local_value' = r.res.value
                /\ pos' = r.pos
                /\ UNCHANGED <<pc, result>>
    /\ UNCHANGED <<stream, catalog, state, frame_info, op, calls>>

\* the loop is left: JpegMarkerCode::try_from(value) and the return
ConvertCodeByte ==
    /\ pc = "fill_loop"
    /\ local_value # MarkerPrefix
    /\ result' = ResolveMarker([res |-> Ok(local_value), pos |-> pos]).res
    /\ pc' = "idle"
    /\ UNCHANGED <<stream, catalog, pos, state, frame_info, op, calls,
                   local_value>>

\* a step of a running call
RunningStep == ReadFirstByte \/ ReadFillByte \/ ConvertCodeByte

LoopNext == BeginReadNextMarkerCode \/ RunningStep

\* A call that has begun goes on until it returns: the code is sequential
\* and each step is a blocking read of an in-memory source or a return.
LoopSpec == Init /\ [][LoopNext]_vars /\ WF_vars(RunningStep)

\* The first call, run step by step, returns what the call as one action
\* returns and leaves the same read position.
LoopAgreesWithCall ==
    (pc = "idle" /\ calls = 1)
        => /\ result = ReadNextMarkerCode(stream, 0).res
           /\ pos = ReadNextMarkerCode(stream, 0).pos

----------------------------------------------------------------------------
(* Properties *)

\* the first call on a reader constructed over the stream was read_header
FirstReadHeader == calls = 1 /\ op = "read_header"

\* C1: on a stream whose first byte is not 0xFF, the first read_header of a
\* fresh reader fails with JpegMarkerStartByteNotFound or
\* StartOfImageMarkerNotFound, whatever bytes follow.
C1_FirstByteNotPrefixFails ==
    (FirstReadHeader /\ Len(stream) >= 1 /\ stream[1] # MarkerPrefix)
        => /\ ~result.ok
           /\ result.error \in {"JpegMarkerStartByteNotFound",
                                "StartOfImageMarkerNotFound"}

\* C1 witness: read_header has failed on a stream that holds 0xFF 0xD8 right
\* after a first byte that is not 0xFF.
C1_Witness ==
    /\ FirstReadHeader
    /\ Len(stream) >= 3
    /\ stream[1] = NotAMarkerByte
    /\ stream[2] = MarkerPrefix
    /\ stream[3] = StartOfImage
    /\ result = Err("JpegMarkerStartByteNotFound")

InsertFill(s, p, n) ==
    SubSeq(s, 1, p + 1) \o [i \in 1..n |-> MarkerPrefix]
        \o SubSeq(s, p + 2, Len(s))

\* C3: when the next unread byte is a marker prefix, n extra 0xFF bytes
\* inserted between it and the code byte change neither the result of
\* read_next_marker_code nor the result and final state of read_header.
C3_FillBytesTransparent ==
    (pos < Len(stream) /\ stream[pos + 1] = MarkerPrefix)
        => \A n \in 0..MaxFill :
             LET filled == InsertFill(stream, pos, n)
             IN  /\ ReadNextMarkerCode(filled, pos).res
                        = ReadNextMarkerCode(stream, pos).res
                 /\ ReadHeader(state, filled, pos).res
                        = ReadHeader(state, stream, pos).res
                 /\ ReadHeader(state, filled, pos).state
                        = ReadHeader(state, stream, pos).state

\* C3 witness: a first read_header has succeeded after absorbing two fill
\* bytes before the start-of-image code byte.
C3_Witness ==
    /\ FirstReadHeader
    /\ Len(stream) >= 4
    /\ \A i \in 1..3 : stream[i] = MarkerPrefix
    /\ stream[4] = StartOfImage
    /\ result = Ok(0)
    /\ state = "HeaderSection"
    /\ pos = 4

\* C4: a read_header that returns an error leaves the state as it was, and
\* the state changes only in a read_header that returns success.
C4_ErrorLeavesState ==
    [][/\ (op' = "read_header" /\ ~result'.ok) => state' = state
       /\ state' # state => (op' = "read_header" /\ result'.ok)]_vars

\* C4 witness: a first read_header has failed on a recognized first marker
\* that is not start-of-image, and the state is still BeforeStartOfImage.
C4_Witness ==
    /\ FirstReadHeader
    /\ Len(stream) >= 2
    /\ stream[1] = MarkerPrefix
    /\ stream[2] = StartOfScan
    /\ result = Err("StartOfImageMarkerNotFound")
    /\ state = "BeforeStartOfImage"

\* C5: read_header on a reader whose state is past BeforeStartOfImage
\* returns success, reads nothing and leaves the state as it was.
C5_ReadHeaderIdempotent ==
    [][(state # "BeforeStartOfImage" /\ op' = "read_header")
          => (result' = Ok(0) /\ state' = state /\ pos' = pos)]_vars

\* C5 witness: a second read_header has succeeded right after the first one
\* consumed the start-of-image marker, although the next unread byte is not
\* a marker prefix.
C5_Witness ==
    /\ calls = 2
    /\ op = "read_header"
    /\ result = Ok(0)
    /\ state = "HeaderSection"
    /\ pos = 2
    /\ Len(stream) >= 3
    /\ stream[3] = NotAMarkerByte

\* C6: no call moves the state to an earlier state of the enumeration.
C6_StateMonotonic == [][Rank(state') >= Rank(state)]_vars

\* C6 witness: calls were made after the state had advanced, the last of
\* them a failing read_next_marker_code.
C6_Witness ==
    /\ calls = MaxCalls
    /\ state = "HeaderSection"
    /\ op = "read_next_marker_code"
    /\ ~result.ok

\* the stream is a marker prefix, fill bytes, and then a code byte the
\* catalog does not hold
PrefixThenUnrecognized ==
    /\ Len(stream) >= 2
    /\ stream[1] = MarkerPrefix
    /\ \E k \in 2..Len(stream) :
          /\ \A j \in 1..(k - 1) : stream[j] = MarkerPrefix
          /\ stream[k] # MarkerPrefix
          /\ stream[k] \notin catalog

\* C7, as claimed: read_next_marker_code on a prefix followed by an
\* unrecognized code byte fails with an error kind of its own, neither
\* StartOfImageMarkerNotFound nor JpegMarkerStartByteNotFound.
C7_UnrecognizedMarkerDistinct ==
    (calls = 1 /\ op = "read_next_marker_code" /\ PrefixThenUnrecognized)
        => /\ ~result.ok
           /\ result.error \notin {"StartOfImageMarkerNotFound",
                                   "JpegMarkerStartByteNotFound"}

\* C8, as claimed: read_header fails on a stream that begins
\* 0xFF 0xD8 0xFF 0xF9.
C8_ExtendedFrameRejected ==
    (FirstReadHeader /\ Len(stream) >= 4
        /\ SubSeq(stream, 1, 4) = SubSeq(ExtendedFrameStream, 1, 4))
        => ~result.ok

\* the source holds nothing but 0xFF bytes (none at all included): it ends
\* before the prefix, right after it, or inside a run of fill bytes
EndsInsideMarker == \A i \in 1..Len(stream) : stream[i] = MarkerPrefix

\* the source is a valid stream cut before its end
TruncatedValidStream ==
    stream \in Prefixes(ValidHeaderStream) \ {ValidHeaderStream}

\* the error read_u8 gives when the source is exhausted
EndOfStreamError == Err("UnknownError")

\* C9, as claimed: a call that needs a byte the source no longer has fails
\* with the end-of-stream error, read_header on a truncated valid stream
\* included, and no call reads past the end of the source.
C9_ExhaustedSourceFails ==
    calls = 1
        => /\ EndsInsideMarker => result = EndOfStreamError
           /\ (op = "read_header" /\ TruncatedValidStream)
                 => result = EndOfStreamError
           /\ pos <= Len(stream)

\* C10, as claimed: after read_header on start-of-image, frame segment
\* (precision 2, height 1, width 1, one component) and scan segment, the
\* call has succeeded and the frame info holds these values.
C10_FrameInfoDecoded ==
    (FirstReadHeader /\ stream \in {ValidHeaderStream, WriterHeaderStream})
        => /\ result.ok
           /\ frame_info = [width |-> 1, height |-> 1, bits_per_sample |-> 2,
                            component_count |-> 1]

\* C11: while the state is before FrameSection, the four fields of the
\* frame info are zero.
C11_FrameInfoZeroBeforeFrame ==
    Rank(state) < Rank("FrameSection")
        => /\ frame_info.width = 0
           /\ frame_info.height = 0
           /\ frame_info.bits_per_sample = 0
           /\ frame_info.component_count = 0

\* C11 witness: read_header has succeeded on a stream that holds a frame
\* segment, the state is HeaderSection and the frame info is still zero.
C11_Witness ==
    /\ FirstReadHeader
    /\ stream = ValidHeaderStream
    /\ result = Ok(0)
    /\ state = "HeaderSection"
    /\ frame_info.width = 0
    /\ frame_info.component_count = 0

\* C12, as claimed: read_header fails on a stream with a second
\* start-of-image right after the first, and on one with a start-of-scan
\* right after start-of-image.
C12_IllegalMarkerRejected ==
    (FirstReadHeader /\ Len(stream) >= 4
        /\ SubSeq(stream, 1, 3) = <<MarkerPrefix, StartOfImage, MarkerPrefix>>
        /\ stream[4] \in {StartOfImage, StartOfScan})
        => ~result.ok

\* C13: the first read_header succeeds on every stream made of
\* start-of-image, an application data marker 0xE0 + n with an empty
\* segment, a frame segment and a scan segment, n in 0..15.
C13_ApplicationDataAccepted ==
    (FirstReadHeader /\ \E n \in 0..15 : stream = ApplicationDataStream(n))
        => result = Ok(0)

\* C13 witness: read_header has returned on the stream with the last
\* application data marker, 0xEF.
C13_Witness ==
    /\ FirstReadHeader
    /\ stream = ApplicationDataStream(15)
    /\ stream[4] = 239
    /\ result.ok
    /\ pos = 2

\* C15, as claimed: once read_header has succeeded on start-of-image
\* followed by a frame segment written for (width, height, precision,
\* component count), the frame info holds exactly these values.
C15_FrameHeaderRoundTrip ==
    \A f \in FrameParameters :
        (op = "read_header" /\ result.ok
            /\ stream = FrameStream(f.width, f.height, f.bits_per_sample,
                                    f.component_count))
            => frame_info = f

\* the byte at index k is the first byte after offset p that is not 0xFF,
\* and the byte at offset p is a marker prefix
CodeByteAt(s, p, k) ==
    /\ k \in (p + 2)..Len(s)
    /\ \A j \in (p + 1)..(k - 1) : s[j] = MarkerPrefix
    /\ s[k] # MarkerPrefix

\* C14: read_next_marker_code advances the read position by one byte when
\* the prefix is missing, and by prefix + fill bytes + code byte (up to and
\* including the code byte, never further) when a code byte follows the
\* prefix, recognized or not; no call moves the read position back or past
\* the end of the source.
C14_ConsumesOneMarker ==
    [][/\ pos' >= pos
       /\ pos' <= Len(stream)
       /\ op' = "read_next_marker_code"
             => /\ (pos < Len(stream) /\ stream[pos + 1] # MarkerPrefix)
                      => pos' = pos + 1
                /\ \A k \in 1..Len(stream) :
                      CodeByteAt(stream, pos, k) => pos' = k]_vars

\* C14 witness: read_next_marker_code has failed on an unrecognized code
\* byte after one fill byte, and the byte after the code byte is unread.
C14_Witness ==
    /\ calls = 1
    /\ op = "read_next_marker_code"
    /\ Len(stream) >= 4
    /\ SubSeq(stream, 1, 3) = <<MarkerPrefix, MarkerPrefix, NotAMarkerByte>>
    /\ result = Err("StartOfImageMarkerNotFound")
    /\ pos = 3

\* the source holds at least one byte and nothing but 0xFF bytes
OnlyFillBytes ==
    /\ Len(stream) >= 1
    /\ \A i \in 1..Len(stream) : stream[i] = MarkerPrefix

\* C16: every call of read_next_marker_code returns, and on a source of
\* 0xFF bytes only it returns the end-of-input error, never a marker.
C16_ReadNextMarkerCodeTerminates ==
    /\ [](pc # "idle" => <>(pc = "idle"))
    /\ []((pc = "idle" /\ calls >= 1 /\ OnlyFillBytes)
             => result = Err("UnknownError"))

\* C16 witness: a call has returned the end-of-input error after reading a
\* prefix and two fill bytes to the end of the source.
C16_Witness ==
    /\ pc = "idle"
    /\ calls = 1
    /\ OnlyFillBytes
    /\ Len(stream) = 3
    /\ pos = 3
    /\ local_value = MarkerPrefix
    /\ result = Err("UnknownError")

\* C17: a read_header that fails leaves the state at BeforeStartOfImage
\* and the bytes it read consumed; the next read_header goes on from the
\* first unread byte and succeeds when a start-of-image marker is there. On
\* a stream that begins 0x0F 0xFF 0xD8 the first read_header fails with
\* JpegMarkerStartByteNotFound and the second succeeds.
C17_FailureDoesNotPoison ==
    [][/\ (op' = "read_header" /\ ~result'.ok)
             => /\ state' = "BeforeStartOfImage"
                /\ pos < Len(stream) => pos' > pos
       /\ (op = "read_header" /\ ~result.ok /\ op' = "read_header")
             => /\ pos' >= pos
                /\ \A k \in 1..Len(stream) :
                      (CodeByteAt(stream, pos, k) /\ stream[k] = StartOfImage)
                          => /\ result' = Ok(0)
                             /\ state' = "HeaderSection"
                             /\ pos' = k
       /\ (FirstReadHeader /\ op' = "read_header" /\ Len(stream) >= 3
              /\ SubSeq(stream, 1, 3)
                     = <<NotAMarkerByte, MarkerPrefix, StartOfImage>>)
             => /\ result = Err("JpegMarkerStartByteNotFound")
                /\ pos = 1
                /\ result' = Ok(0)
                /\ state' = "HeaderSection"
                /\ pos' = 3]_vars

\* C17 witness: on the stream 0x0F 0xFF 0xD8 the second call, a
\* read_header, has succeeded with all three bytes consumed.
C17_Witness ==
    /\ calls = 2
    /\ op = "read_header"
    /\ stream = <<NotAMarkerByte, MarkerPrefix, StartOfImage>>
    /\ result = Ok(0)
    /\ state = "HeaderSection"
    /\ pos = 3

\* C18: read_next_marker_code leaves the state and the frame info as they
\* were; after a first call of it has returned the start-of-image marker
\* the state is still BeforeStartOfImage, and a read_header that follows
\* succeeds exactly when the remaining bytes begin with another
\* start-of-image marker.
C18_MarkerReadKeepsState ==
    [][/\ op' = "read_next_marker_code"
             => (state' = state /\ frame_info' = frame_info)
       /\ (calls = 1 /\ op = "read_next_marker_code"
              /\ result = Ok(StartOfImage))
             => /\ state = "BeforeStartOfImage"
                /\ op' = "read_header"
                      => (result'.ok
                            <=> \E k \in 1..Len(stream) :
                                   /\ CodeByteAt(stream, pos, k)
                                   /\ stream[k] = StartOfImage)]_vars

\* C18 witness: after read_next_marker_code consumed the start-of-image
\* marker, read_header has failed on the start-of-scan marker that follows
\* and the state is still BeforeStartOfImage.
C18_Witness ==
    /\ calls = 2
    /\ op = "read_header"
    /\ Len(stream) >= 4
    /\ SubSeq(stream, 1, 4)
           = <<MarkerPrefix, StartOfImage, MarkerPrefix, StartOfScan>>
    /\ pos = 4
    /\ state = "BeforeStartOfImage"
    /\ result = Err("StartOfImageMarkerNotFound")

\* number of start-of-image markers (0xFF 0xD8) in s
StartOfImageCount(s) ==
    Cardinality({i \in 1..(Len(s) - 1) :
                    s[i] = MarkerPrefix /\ s[i + 1] = StartOfImage})

\* C20, as claimed: in a stream written as start-of-image and a frame
\* segment, the frame marker comes right after the start-of-image marker
\* and is followed by the big-endian length of the rest of the segment
\* (payload + 2); the stream written as start-of-image, frame segment and
\* scan segment is in the segment layout and holds one start-of-image
\* marker.
C20_WriterSegmentLayout ==
    /\ \A f \in FrameParameters :
          stream = FrameStream(f.width, f.height, f.bits_per_sample,
                               f.component_count)
              => /\ stream[3] = MarkerPrefix
                 /\ stream[4] = StartOfFrameJpegls
                 /\ stream[5] * 256 + stream[6] = Len(stream) - 4
    /\ stream = WriterHeaderStream
          => /\ stream = ValidHeaderStream
             /\ StartOfImageCount(stream) = 1

====
